---- MODULE Spec2Model ----
(***************************************************************************)
(* cosey: COSE_Key public keys as CBOR maps (src/src/lib.rs).              *)
(*                                                                         *)
(* The model follows one codec run at a time: a typed key (or a raw       *)
(* record) is serialized to a list of map entries, the entry list is       *)
(* optionally edited the way tests/cose.rs edits it (a permutation, a      *)
(* dropped or replaced alg/crv entry, appended unknown entries), and the   *)
(* resulting map is deserialized as a target type.  visit_map is followed  *)
(* block by block; the typed layer (check_key_constants and the payload    *)
(* extraction) closes the run.  A run may also start from a map written    *)
(* entry by entry: labels in any order, or a canonical prefix followed by  *)
(* a key that is no label and further entries.  A key that a decode        *)
(* returned may be serialized and decoded once more.                       *)
(*                                                                         *)
(* The build modelled is the one with every backend-dilithium feature on.  *)
(*                                                                         *)
(* The CBOR reader and writer are used through next_key, next_value and    *)
(* serialize_entry only: a key is read as an i8, a value as the type of    *)
(* the slot it goes to, and entries visit_map leaves unread are not        *)
(* looked at.  A type without a Deserialize impl (TotpPublicKey, the       *)
(* union PublicKey) has no decoder: a run aimed at it ends with no value.  *)
(***************************************************************************)
EXTENDS Integers, Sequences, FiniteSets, TLC

VARIABLES
    pc,          \* position of the run: "start", "encoded", "ready", the visit_map blocks, "done"
    data,        \* the typed key handed to Serialize (NoKey when a raw record is serialized)
    raw,         \* the raw record handed to the raw serializer
    emitted,     \* what the serializer wrote: declared entry count and entry list
    mutation,    \* how the decoder's input was derived from the emitted entries
    input,       \* the entry list of the map handed to Deserialize
    target,      \* the type the map is deserialized as
    pos,         \* number of map keys the reader has handed out
    key,         \* visit_map's local `key`
    public_key,  \* visit_map's local `public_key`
    visited,     \* visit_map's return value, once it has returned
    result,      \* the typed Deserialize result
    wrapped,     \* what serializing PublicKey::from(data) wrote
    first,       \* the key a decode returned, once it has been serialized and decoded again
    writes,      \* the slots visit_map has assigned, in the order of the assignments
    keyReads,    \* number of map.next_key calls made by visit_map
    valueReads   \* number of map.next_value calls made by visit_map

vars ==
    <<pc, data, raw, emitted, mutation, input, target, pos, key, public_key, visited, result,
      wrapped, first, writes, keyReads, valueReads>>

----------------------------------------------------------------------------
(* Bounds of the model *)

\* payload bytes are 255 except the first, which is 255 - f for f in 0..MaxFill
MaxFill == 1
\* payload lengths range over EcCapacity - MaxShort .. EcCapacity
MaxShort == 1
\* at most MaxExtra unrecognized entries are appended
MaxExtra == 2
\* an over-long payload has EcCapacity + 1 .. EcCapacity + MaxOver bytes
MaxOver == 1
\* a map written label by label has at most MaxLabels entries
MaxLabels == 5
\* at most MaxTail entries follow the first key that is no label
MaxTail == 2
\* map keys range over -128 - MaxBeyond .. 127 + MaxBeyond
MaxBeyond == 2

----------------------------------------------------------------------------
(* Label / Kty / Alg / Crv tables *)

Labels == {"Kty", "Alg", "CrvOrPk", "X", "Y"}

LabelAsI8(l) ==
    CASE l = "Kty" -> 1
      [] l = "Alg" -> 3
      [] l = "CrvOrPk" -> -1
      [] l = "X" -> -2
      [] l = "Y" -> -3

I8 == -128 .. 127

TryFromOk(l) == [ok |-> TRUE, label |-> l]
TryFromIntError == [ok |-> FALSE, label |-> ""]

\* impl TryFrom<i8> for Label
Label_try_from(label) ==
    CASE label = 1 -> TryFromOk("Kty")
      [] label = 3 -> TryFromOk("Alg")
      [] label = -1 -> TryFromOk("CrvOrPk")
      [] label = -2 -> TryFromOk("X")
      [] label = -3 -> TryFromOk("Y")
      [] OTHER -> TryFromIntError

KtyValues == {"Okp", "Ec2", "Symmetric", "Pqc"}

KtyAsI8(k) ==
    CASE k = "Okp" -> 1
      [] k = "Ec2" -> 2
      [] k = "Symmetric" -> 4
      [] k = "Pqc" -> 7

AlgValues == {"Es256", "EdDsa", "Totp", "Dilithium2", "Dilithium3", "Dilithium5", "EcdhEsHkdf256"}

AlgAsI8(a) ==
    CASE a = "Es256" -> -7
      [] a = "EdDsa" -> -8
      [] a = "Totp" -> -9
      [] a = "Dilithium2" -> -87
      [] a = "Dilithium3" -> -88
      [] a = "Dilithium5" -> -89
      [] a = "EcdhEsHkdf256" -> -25

CrvValues == {"None", "P256", "X25519", "Ed25519"}

CrvAsI8(c) ==
    CASE c = "None" -> 0
      [] c = "P256" -> 1
      [] c = "X25519" -> 4
      [] c = "Ed25519" -> 6

----------------------------------------------------------------------------
(* CBOR values and map entries, as the reader and the writer see them *)

IntVal(n) == [t |-> "int", i |-> n, b |-> <<>>]
BytesVal(s) == [t |-> "bytes", i |-> 0, b |-> s]
TextVal == [t |-> "text", i |-> 0, b |-> <<>>]

Entry(k, v) == [k |-> k, v |-> v]

Some(v) == [some |-> TRUE, v |-> v]
NoneEnum == [some |-> FALSE, v |-> ""]
NoneBytes == [some |-> FALSE, v |-> <<>>]

ValOk(v) == [ok |-> TRUE, v |-> v, err |-> ""]
ValErrEnum(e) == [ok |-> FALSE, v |-> "", err |-> e]
ValErrBytes(e) == [ok |-> FALSE, v |-> <<>>, err |-> e]

\* Deserialize_repr on Kty: an i8 that is one of the discriminants
next_value_Kty(v) ==
    IF v.t = "int" /\ v.i \in I8 /\ \E k \in KtyValues : KtyAsI8(k) = v.i
    THEN ValOk(CHOOSE k \in KtyValues : KtyAsI8(k) = v.i)
    ELSE ValErrEnum("invalid kty value")

\* Deserialize_repr on Alg
next_value_Alg(v) ==
    IF v.t = "int" /\ v.i \in I8 /\ \E a \in AlgValues : AlgAsI8(a) = v.i
    THEN ValOk(CHOOSE a \in AlgValues : AlgAsI8(a) = v.i)
    ELSE ValErrEnum("invalid alg value")

\* Deserialize_repr on Crv
next_value_Crv(v) ==
    IF v.t = "int" /\ v.i \in I8 /\ \E c \in CrvValues : CrvAsI8(c) = v.i
    THEN ValOk(CHOOSE c \in CrvValues : CrvAsI8(c) = v.i)
    ELSE ValErrEnum("invalid crv value")

\* capacity of the x and y buffers: Bytes<32>
EcCapacity == 32

\* a Bytes<N> reader that keeps the first N bytes of a longer string
next_value_Bytes_Truncating(v, capacity) ==
    IF v.t = "bytes"
    THEN ValOk(IF Len(v.b) <= capacity THEN v.b ELSE SubSeq(v.b, 1, capacity))
    ELSE ValErrBytes("invalid byte string")

\* Bytes<N>: a byte string of at most N bytes
next_value_Bytes(v, capacity) ==
    IF v.t = "bytes" /\ Len(v.b) <= capacity
    THEN ValOk(v.b)
    ELSE ValErrBytes("invalid byte string")

----------------------------------------------------------------------------
(* Typed keys and their constants *)

EcXyVariants == {"P256PublicKey", "EcdhEsHkdf256PublicKey"}
DilithiumVariants == {"Dilithium2PublicKey", "Dilithium3PublicKey", "Dilithium5PublicKey"}
Variants == EcXyVariants \cup {"Ed25519PublicKey", "TotpPublicKey"} \cup DilithiumVariants

\* trait PublicKeyConstants
KTY(K) ==
    CASE K = "P256PublicKey" -> "Ec2"
      [] K = "EcdhEsHkdf256PublicKey" -> "Ec2"
      [] K = "Ed25519PublicKey" -> "Okp"
      [] K = "TotpPublicKey" -> "Symmetric"
      [] K \in DilithiumVariants -> "Pqc"

ALG(K) ==
    CASE K = "P256PublicKey" -> "Es256"
      [] K = "EcdhEsHkdf256PublicKey" -> "EcdhEsHkdf256"
      [] K = "Ed25519PublicKey" -> "EdDsa"
      [] K = "TotpPublicKey" -> "Totp"
      [] K = "Dilithium2PublicKey" -> "Dilithium2"
      [] K = "Dilithium3PublicKey" -> "Dilithium3"
      [] K = "Dilithium5PublicKey" -> "Dilithium5"

CRV(K) ==
    CASE K = "P256PublicKey" -> "P256"
      [] K = "EcdhEsHkdf256PublicKey" -> "P256"
      [] K = "Ed25519PublicKey" -> "Ed25519"
      [] K = "TotpPublicKey" -> "None"
      [] K \in DilithiumVariants -> "None"

\* the pk buffer of a Dilithium key: Bytes<{ dilithiumN::public_key_bytes() }>
DilithiumCapacity(K) ==
    CASE K = "Dilithium2PublicKey" -> 1312
      [] K = "Dilithium3PublicKey" -> 1952
      [] K = "Dilithium5PublicKey" -> 2592

P256Key(x, y) == [variant |-> "P256PublicKey", x |-> x, y |-> y]
EcdhKey(x, y) == [variant |-> "EcdhEsHkdf256PublicKey", x |-> x, y |-> y]
Ed25519Key(x) == [variant |-> "Ed25519PublicKey", x |-> x]
TotpKey == [variant |-> "TotpPublicKey"]
DilithiumKey(K, pk) == [variant |-> K, pk |-> pk]
NoKey == [variant |-> "none"]

\* the union PublicKey: one tag per variant, holding the key
PublicKeyUnion(tag, k) == [variant |-> "PublicKey", tag |-> tag, inner |-> k]

\* impl From<...> for PublicKey
PublicKey_from(k) ==
    CASE k.variant = "P256PublicKey" -> PublicKeyUnion("P256Key", k)
      [] k.variant = "EcdhEsHkdf256PublicKey" -> PublicKeyUnion("EcdhEsHkdf256Key", k)
      [] k.variant = "Ed25519PublicKey" -> PublicKeyUnion("Ed25519Key", k)
      [] k.variant = "TotpPublicKey" -> PublicKeyUnion("TotpKey", k)
      [] k.variant = "Dilithium2PublicKey" -> PublicKeyUnion("Dilithium2", k)
      [] k.variant = "Dilithium3PublicKey" -> PublicKeyUnion("Dilithium3", k)
      [] k.variant = "Dilithium5PublicKey" -> PublicKeyUnion("Dilithium5", k)

----------------------------------------------------------------------------
(* Raw records and the serializers *)

RawEcPublicKey(kty, alg, crv, x, y) ==
    [kty |-> kty, alg |-> alg, crv |-> crv, x |-> x, y |-> y]

RawEcDefault == RawEcPublicKey(NoneEnum, NoneEnum, NoneEnum, NoneBytes, NoneBytes)

RawDilithiumPublicKey(kty, alg, pk) == [kty |-> kty, alg |-> alg, pk |-> pk]

RawDilithiumDefault == RawDilithiumPublicKey(NoneEnum, NoneEnum, NoneBytes)

\* impl From<P256PublicKey> for RawEcPublicKey
RawFromP256(k) ==
    RawEcPublicKey(Some(KTY("P256PublicKey")), Some(ALG("P256PublicKey")),
                   Some(CRV("P256PublicKey")), Some(k.x), Some(k.y))

\* From<EcdhEsHkdf256PublicKey> injecting the signature key's alg
RawFromEcdh_Es256(k) ==
    RawEcPublicKey(Some(KTY("EcdhEsHkdf256PublicKey")), Some(ALG("P256PublicKey")),
                   Some(CRV("EcdhEsHkdf256PublicKey")), Some(k.x), Some(k.y))

\* impl From<EcdhEsHkdf256PublicKey> for RawEcPublicKey
RawFromEcdh(k) ==
    RawEcPublicKey(Some(KTY("EcdhEsHkdf256PublicKey")), Some(ALG("EcdhEsHkdf256PublicKey")),
                   Some(CRV("EcdhEsHkdf256PublicKey")), Some(k.x), Some(k.y))

\* From<Ed25519PublicKey> filling the y slot as the xy variants do
RawFromEd25519_WithY(k) ==
    RawEcPublicKey(Some(KTY("Ed25519PublicKey")), Some(ALG("Ed25519PublicKey")),
                   Some(CRV("Ed25519PublicKey")), Some(k.x), Some(k.x))

\* impl From<Ed25519PublicKey> for RawEcPublicKey
RawFromEd25519(k) ==
    RawEcPublicKey(Some(KTY("Ed25519PublicKey")), Some(ALG("Ed25519PublicKey")),
                   Some(CRV("Ed25519PublicKey")), Some(k.x), NoneBytes)

\* impl From<TotpPublicKey> for RawEcPublicKey
RawFromTotp_WithCrv(k) ==
    RawEcPublicKey(Some(KTY("TotpPublicKey")), Some(ALG("TotpPublicKey")),
                   Some(CRV("TotpPublicKey")), NoneBytes, NoneBytes)

RawFromTotp(k) ==
    RawEcPublicKey(Some(KTY("TotpPublicKey")), Some(ALG("TotpPublicKey")),
                   NoneEnum, NoneBytes, NoneBytes)

\* impl From<DilithiumNPublicKey> for RawDilithiumNPublicKey
RawFromDilithium(k) ==
    RawDilithiumPublicKey(Some(KTY(k.variant)), Some(ALG(k.variant)), Some(k.pk))

\* #[serde(into = "...")]: the raw record a typed key is serialized through
RawFrom(k) ==
    CASE k.variant = "P256PublicKey" -> RawFromP256(k)
      [] k.variant = "EcdhEsHkdf256PublicKey" -> RawFromEcdh(k)
      [] k.variant = "Ed25519PublicKey" -> RawFromEd25519(k)
      [] k.variant = "TotpPublicKey" -> RawFromTotp(k)
      [] k.variant \in DilithiumVariants -> RawFromDilithium(k)

BoolToUsize(b) == IF b THEN 1 ELSE 0

Emitted(n, es) == [len |-> n, entries |-> es]

\* `if let Some(kty) = &self.kty { map.serialize_entry(&(Label::Kty as i8), &(*kty as i8))?; }`
KtyEntry(r) ==
    IF r.kty.some THEN <<Entry(LabelAsI8("Kty"), IntVal(KtyAsI8(r.kty.v)))>> ELSE <<>>

AlgEntry(r) ==
    IF r.alg.some THEN <<Entry(LabelAsI8("Alg"), IntVal(AlgAsI8(r.alg.v)))>> ELSE <<>>

CrvEntry(r) ==
    IF r.crv.some THEN <<Entry(LabelAsI8("CrvOrPk"), IntVal(CrvAsI8(r.crv.v)))>> ELSE <<>>

XEntry(r) ==
    IF r.x.some THEN <<Entry(LabelAsI8("X"), BytesVal(r.x.v))>> ELSE <<>>

YEntry(r) ==
    IF r.y.some THEN <<Entry(LabelAsI8("Y"), BytesVal(r.y.v))>> ELSE <<>>

PkEntry(r) ==
    IF r.pk.some THEN <<Entry(LabelAsI8("CrvOrPk"), BytesVal(r.pk.v))>> ELSE <<>>

\* Serialize for RawEcPublicKey writing y before x
SerializeRawEc_YFirst(r) ==
    LET fields == BoolToUsize(r.kty.some) + BoolToUsize(r.alg.some) + BoolToUsize(r.crv.some)
                  + BoolToUsize(r.x.some) + BoolToUsize(r.y.some)
    IN  Emitted(fields, KtyEntry(r) \o AlgEntry(r) \o CrvEntry(r) \o YEntry(r) \o XEntry(r))

\* impl Serialize for RawEcPublicKey
SerializeRawEc(r) ==
    LET fields == BoolToUsize(r.kty.some) + BoolToUsize(r.alg.some) + BoolToUsize(r.crv.some)
                  + BoolToUsize(r.x.some) + BoolToUsize(r.y.some)
    IN  Emitted(fields, KtyEntry(r) \o AlgEntry(r) \o CrvEntry(r) \o XEntry(r) \o YEntry(r))

\* impl Serialize for RawDilithiumNPublicKey
SerializeRawDilithium(r) ==
    LET fields == BoolToUsize(r.kty.some) + BoolToUsize(r.alg.some) + BoolToUsize(r.pk.some)
    IN  Emitted(fields, KtyEntry(r) \o AlgEntry(r) \o PkEntry(r))

IsRawDilithium(r) == "pk" \in DOMAIN r

SerializeRaw(r) == IF IsRawDilithium(r) THEN SerializeRawDilithium(r) ELSE SerializeRawEc(r)

\* the derived Serialize of PublicKey without #[serde(untagged)]: a one-entry map from the
\* variant to the key
SerializePublicKey_Tagged(u) == Emitted(1, <<Entry(0, TextVal)>>)

\* #[derive(Serialize)] #[serde(untagged)] on PublicKey: one match arm per variant, each
\* serializing the key it holds with the key's own Serialize
SerializePublicKey(u) ==
    CASE u.tag = "P256Key" -> SerializeRaw(RawFromP256(u.inner))
      [] u.tag = "EcdhEsHkdf256Key" -> SerializeRaw(RawFromEcdh(u.inner))
      [] u.tag = "Ed25519Key" -> SerializeRaw(RawFromEd25519(u.inner))
      [] u.tag = "TotpKey" -> SerializeRaw(RawFromTotp(u.inner))
      [] u.tag \in {"Dilithium2", "Dilithium3", "Dilithium5"} ->
            SerializeRaw(RawFromDilithium(u.inner))

----------------------------------------------------------------------------
(* The map reader and visit_map's helpers *)

KeyLabel(l) == [tag |-> "Label", label |-> l, n |-> 0]
KeyUnknown(n) == [tag |-> "Unknown", label |-> "", n |-> n]
KeyNone == [tag |-> "None", label |-> "", n |-> 0]

\* map.next_key::<i8>(): None once every entry's key was handed out, an error for a
\* key that is no i8
MapNextKey(m, p) ==
    IF p >= Len(m) THEN [ok |-> TRUE, some |-> FALSE, k |-> 0]
    ELSE IF m[p + 1].k \notin I8 THEN [ok |-> FALSE, some |-> FALSE, k |-> 0]
    ELSE [ok |-> TRUE, some |-> TRUE, k |-> m[p + 1].k]

\* a next_key that passes over the keys that are no label and hands out the next label
next_key_SkippingUnknown(m, p) ==
    LET later == {i \in (p + 1) .. Len(m) : Label_try_from(m[i].k).ok} IN
    IF later = {} THEN [ok |-> TRUE, key |-> KeyNone, pos |-> Len(m), err |-> ""]
    ELSE LET i == CHOOSE i \in later : \A j \in later : i <= j IN
         [ok |-> TRUE, key |-> KeyLabel(Label_try_from(m[i].k).label), pos |-> i, err |-> ""]

\* fn next_key
next_key(m, p) ==
    LET k == MapNextKey(m, p) IN
    IF ~k.ok THEN [ok |-> FALSE, key |-> KeyNone, pos |-> p, err |-> "invalid key"]
    ELSE IF k.some
    THEN [ok |-> TRUE,
          key |-> IF Label_try_from(k.k).ok THEN KeyLabel(Label_try_from(k.k).label)
                  ELSE KeyUnknown(k.k),
          pos |-> p + 1, err |-> ""]
    ELSE [ok |-> TRUE, key |-> KeyNone, pos |-> p, err |-> ""]

Ok(k) == [status |-> "ok", key |-> k, err |-> ""]
Err(e) == [status |-> "err", key |-> NoKey, err |-> e]
NoResult == [status |-> "none", key |-> NoKey, err |-> ""]
\* the target type has no Deserialize impl: no decoder exists for it
NoImpl == [status |-> "no_impl", key |-> NoKey, err |-> ""]

WrongOrder == "public key data in wrong order or with duplicates"

\* check_key_constants with alg required like kty
check_key_constants_AlgRequired(K, kty, alg, crv) ==
    IF ~kty.some THEN [ok |-> FALSE, err |-> "missing field kty"]
    ELSE IF kty.v # KTY(K) THEN [ok |-> FALSE, err |-> "invalid value kty"]
    ELSE IF ~alg.some THEN [ok |-> FALSE, err |-> "missing field alg"]
    ELSE IF alg.v # ALG(K) THEN [ok |-> FALSE, err |-> "invalid value alg"]
    ELSE IF CRV(K) # "None" /\ ~crv.some THEN [ok |-> FALSE, err |-> "missing field crv"]
    ELSE IF CRV(K) # "None" /\ crv.v # CRV(K) THEN [ok |-> FALSE, err |-> "invalid value crv"]
    ELSE [ok |-> TRUE, err |-> ""]

\* check_key_constants asking for a kty without comparing it
check_key_constants_AnyKty(K, kty, alg, crv) ==
    IF ~kty.some THEN [ok |-> FALSE, err |-> "missing field kty"]
    ELSE IF alg.some /\ alg.v # ALG(K) THEN [ok |-> FALSE, err |-> "invalid value alg"]
    ELSE IF CRV(K) # "None" /\ ~crv.some THEN [ok |-> FALSE, err |-> "missing field crv"]
    ELSE IF CRV(K) # "None" /\ crv.v # CRV(K) THEN [ok |-> FALSE, err |-> "invalid value crv"]
    ELSE [ok |-> TRUE, err |-> ""]

\* check_key_constants without the comparison of a present alg
check_key_constants_NoAlgCheck(K, kty, alg, crv) ==
    IF ~kty.some THEN [ok |-> FALSE, err |-> "missing field kty"]
    ELSE IF kty.v # KTY(K) THEN [ok |-> FALSE, err |-> "invalid value kty"]
    ELSE IF CRV(K) # "None" /\ ~crv.some THEN [ok |-> FALSE, err |-> "missing field crv"]
    ELSE IF CRV(K) # "None" /\ crv.v # CRV(K) THEN [ok |-> FALSE, err |-> "invalid value crv"]
    ELSE [ok |-> TRUE, err |-> ""]

\* check_key_constants treating crv like alg: compared only if present
check_key_constants_OptionalCrv(K, kty, alg, crv) ==
    IF ~kty.some THEN [ok |-> FALSE, err |-> "missing field kty"]
    ELSE IF kty.v # KTY(K) THEN [ok |-> FALSE, err |-> "invalid value kty"]
    ELSE IF alg.some /\ alg.v # ALG(K) THEN [ok |-> FALSE, err |-> "invalid value alg"]
    ELSE IF CRV(K) # "None" /\ crv.some /\ crv.v # CRV(K)
         THEN [ok |-> FALSE, err |-> "invalid value crv"]
    ELSE [ok |-> TRUE, err |-> ""]

\* fn check_key_constants::<K, E>(kty, alg, crv)
check_key_constants(K, kty, alg, crv) ==
    IF ~kty.some THEN [ok |-> FALSE, err |-> "missing field kty"]
    ELSE IF kty.v # KTY(K) THEN [ok |-> FALSE, err |-> "invalid value kty"]
    ELSE IF alg.some /\ alg.v # ALG(K) THEN [ok |-> FALSE, err |-> "invalid value alg"]
    ELSE IF CRV(K) # "None" /\ ~crv.some THEN [ok |-> FALSE, err |-> "missing field crv"]
    ELSE IF CRV(K) # "None" /\ crv.v # CRV(K) THEN [ok |-> FALSE, err |-> "invalid value crv"]
    ELSE [ok |-> TRUE, err |-> ""]

\* Deserialize for P256PublicKey with the coordinates exchanged
Deserialize_P256_Swapped(r) ==
    LET c == check_key_constants("P256PublicKey", r.kty, r.alg, r.crv) IN
    IF ~c.ok THEN Err(c.err)
    ELSE IF ~r.x.some THEN Err("missing field x")
    ELSE IF ~r.y.some THEN Err("missing field y")
    ELSE Ok(P256Key(r.y.v, r.x.v))

\* impl Deserialize for P256PublicKey, after RawEcPublicKey::deserialize returned r
Deserialize_P256(r) ==
    LET c == check_key_constants("P256PublicKey", r.kty, r.alg, r.crv) IN
    IF ~c.ok THEN Err(c.err)
    ELSE IF ~r.x.some THEN Err("missing field x")
    ELSE IF ~r.y.some THEN Err("missing field y")
    ELSE Ok(P256Key(r.x.v, r.y.v))

\* impl Deserialize for EcdhEsHkdf256PublicKey
Deserialize_Ecdh(r) ==
    LET c == check_key_constants("EcdhEsHkdf256PublicKey", r.kty, r.alg, r.crv) IN
    IF ~c.ok THEN Err(c.err)
    ELSE IF ~r.x.some THEN Err("missing field x")
    ELSE IF ~r.y.some THEN Err("missing field y")
    ELSE Ok(EcdhKey(r.x.v, r.y.v))

\* a Deserialize for Ed25519PublicKey that refuses a record with a y
Deserialize_Ed25519_RejectY(r) ==
    LET c == check_key_constants("Ed25519PublicKey", r.kty, r.alg, r.crv) IN
    IF ~c.ok THEN Err(c.err)
    ELSE IF ~r.x.some THEN Err("missing field x")
    ELSE IF r.y.some THEN Err("unknown field y")
    ELSE Ok(Ed25519Key(r.x.v))

\* impl Deserialize for Ed25519PublicKey
Deserialize_Ed25519(r) ==
    LET c == check_key_constants("Ed25519PublicKey", r.kty, r.alg, r.crv) IN
    IF ~c.ok THEN Err(c.err)
    ELSE IF ~r.x.some THEN Err("missing field x")
    ELSE Ok(Ed25519Key(r.x.v))

\* a Deserialize for DilithiumNPublicKey that takes an absent pk for the empty byte string
Deserialize_Dilithium_DefaultPk(K, r) ==
    LET c == check_key_constants(K, r.kty, r.alg, Some("None")) IN
    IF ~c.ok THEN Err(c.err)
    ELSE Ok(DilithiumKey(K, r.pk.v))

\* impl Deserialize for DilithiumNPublicKey
Deserialize_Dilithium(K, r) ==
    LET c == check_key_constants(K, r.kty, r.alg, Some("None")) IN
    IF ~c.ok THEN Err(c.err)
    ELSE IF ~r.pk.some THEN Err("missing field pk")
    ELSE Ok(DilithiumKey(K, r.pk.v))

\* the types that implement Deserialize
DeserializeImpls == EcXyVariants \cup {"Ed25519PublicKey"} \cup DilithiumVariants

DeserializeTyped(K, r) ==
    CASE K = "P256PublicKey" -> Deserialize_P256(r)
      [] K = "EcdhEsHkdf256PublicKey" -> Deserialize_Ecdh(r)
      [] K = "Ed25519PublicKey" -> Deserialize_Ed25519(r)
      [] K \in DilithiumVariants -> Deserialize_Dilithium(K, r)

----------------------------------------------------------------------------
(* Inputs of a run *)

\* a payload of n bytes: 255 - f, then 255s
Payload(n, f) == [i \in 1 .. n |-> IF i = 1 THEN 255 - f ELSE 255]

Payloads == {Payload(EcCapacity - s, f) : s \in 0 .. MaxShort, f \in 0 .. MaxFill}

TypedKeys ==
    {P256Key(x, y) : x \in Payloads, y \in Payloads}
    \cup {EcdhKey(x, y) : x \in Payloads, y \in Payloads}
    \cup {Ed25519Key(x) : x \in Payloads}
    \cup {TotpKey}
    \cup {DilithiumKey(K, pk) : K \in DilithiumVariants, pk \in Payloads}

OptEnum(S) == {NoneEnum} \cup {Some(v) : v \in S}
OptBytes(S) == {NoneBytes} \cup {Some(v) : v \in S}

\* raw records with every combination of present and absent slots
RawRecords ==
    {RawEcPublicKey(kty, alg, crv, x, y) :
        kty \in OptEnum({"Ec2", "Okp"}), alg \in OptEnum({"Es256"}), crv \in OptEnum({"P256"}),
        x \in OptBytes(Payloads), y \in OptBytes(Payloads)}
    \cup {RawDilithiumPublicKey(kty, alg, pk) :
        kty \in OptEnum({"Pqc"}), alg \in OptEnum({"Dilithium2"}), pk \in OptBytes(Payloads)}

\* the injective maps of 1..n onto itself
Perms(n) == {p \in [1 .. n -> 1 .. n] : \A i, j \in 1 .. n : p[i] = p[j] => i = j}

Permute(es, p) == [i \in 1 .. Len(es) |-> es[p[i]]]

Identity(n) == [i \in 1 .. n |-> i]

\* the entries of es whose key is not label
Without(es, label) == SelectSeq(es, LAMBDA e : e.k # LabelAsI8(label))

\* es with the value under label replaced by the integer n
WithValue(es, label, n) ==
    [i \in 1 .. Len(es) |-> IF es[i].k = LabelAsI8(label) THEN Entry(es[i].k, IntVal(n)) ELSE es[i]]

HasLabel(es, label) == \E i \in 1 .. Len(es) : es[i].k = LabelAsI8(label)

\* es with the value under label replaced by the byte string b; an entry for label is
\* put at the end when es has none
WithBytes(es, label, b) ==
    IF HasLabel(es, label)
    THEN [i \in 1 .. Len(es) |->
            IF es[i].k = LabelAsI8(label) THEN Entry(es[i].k, BytesVal(b)) ELSE es[i]]
    ELSE Append(es, Entry(LabelAsI8(label), BytesVal(b)))

\* integer keys that are no label; tests/cose.rs appends 42 and 24
UnknownKeys == {42, 24}

ExtraEntries(ks) == [i \in 1 .. Len(ks) |-> Entry(ks[i], TextVal)]

ExtraKeySeqs == UNION {[1 .. n -> UnknownKeys] : n \in 1 .. MaxExtra}

\* the labels in the order visit_map's blocks test them
CanonicalOrder == <<"Kty", "Alg", "CrvOrPk", "X", "Y">>

\* the labels of S in canonical order
InOrder(S) == SelectSeq(CanonicalOrder, LAMBDA l : l \in S)

LabelSeqs == UNION {[1 .. n -> Labels] : n \in 0 .. MaxLabels}

\* the entry a key of type K has under label: the type's constants, 32-byte coordinates,
\* the pk byte string of an opaque-blob key
WellFormedEntry(label, K) ==
    CASE label = "Kty" -> Entry(LabelAsI8("Kty"), IntVal(KtyAsI8(KTY(K))))
      [] label = "Alg" -> Entry(LabelAsI8("Alg"), IntVal(AlgAsI8(ALG(K))))
      [] label = "CrvOrPk" ->
            IF K \in DilithiumVariants
            THEN Entry(LabelAsI8("CrvOrPk"), BytesVal(Payload(EcCapacity, 0)))
            ELSE Entry(LabelAsI8("CrvOrPk"), IntVal(CrvAsI8(CRV(K))))
      [] label = "X" -> Entry(LabelAsI8("X"), BytesVal(Payload(EcCapacity, 0)))
      [] label = "Y" -> Entry(LabelAsI8("Y"), BytesVal(Payload(EcCapacity, 1)))

WellFormedEntries(ls, K) == [i \in 1 .. Len(ls) |-> WellFormedEntry(ls[i], K)]

\* integer map keys that are no label, some of them no i8
StopKeys == ((-128 - MaxBeyond) .. (127 + MaxBeyond)) \ {LabelAsI8(l) : l \in Labels}

\* entries placed after the first key that is no label: a second kty, an alg that is no
\* Alg value, an alg of another key type, a y, one more unknown key
TailAlphabet(K) ==
    {WellFormedEntry("Kty", K), Entry(LabelAsI8("Alg"), IntVal(0)),
     Entry(LabelAsI8("Alg"), IntVal(AlgAsI8("EdDsa"))), WellFormedEntry("Y", K),
     Entry(24, TextVal)}

Tails(K) == UNION {[1 .. n -> TailAlphabet(K)] : n \in 0 .. MaxTail}

\* what may come directly after the fields of an opaque-blob map
Followers(K) ==
    [none |-> <<>>, X |-> <<WellFormedEntry("X", K)>>, Y |-> <<WellFormedEntry("Y", K)>>,
     unknown |-> <<Entry(42, TextVal)>>]

\* kind: "direct", "perm", "append", "drop", "replace", "oversize", "labels", "stop",
\* "cross", "with_y", "blob" or "reencode" (on: the kind of the run before); on: the entries a permutation
\* acts on ("full" or "noalg") or the label dropped or replaced; perm: the permutation;
\* arg: the replacing value; extra: the appended keys
Mutation(kind, on, perm, arg, extra) ==
    [kind |-> kind, on |-> on, perm |-> perm, arg |-> arg, extra |-> extra]

NoMutation == Mutation("none", "full", <<>>, 0, <<>>)

----------------------------------------------------------------------------
(* The run *)

Init ==
    /\ pc = "start"
    /\ \/ data \in TypedKeys /\ raw = RawEcDefault
       \/ data = NoKey /\ raw \in RawRecords
    /\ emitted = Emitted(0, <<>>)
    /\ mutation = NoMutation
    /\ input = <<>>
    /\ target = "none"
    /\ pos = 0
    /\ key = KeyNone
    /\ public_key = RawEcDefault
    /\ visited = NoResult
    /\ result = NoResult
    /\ wrapped = Emitted(0, <<>>)
    /\ first = NoKey
    /\ writes = <<>>
    /\ keyReads = 0
    /\ valueReads = 0

\* typed_key.serialize(): clone, into the raw record, the raw record's serialize
SerializeTyped ==
    /\ pc = "start"
    /\ data # NoKey
    /\ raw' = RawFrom(data)
    /\ emitted' = SerializeRaw(RawFrom(data))
    /\ pc' = "encoded"
    /\ UNCHANGED <<data, mutation, input, target, pos, key, public_key, visited, result>>
    /\ UNCHANGED <<wrapped, first, writes, keyReads, valueReads>>

\* raw_record.serialize()
SerializeRawRecord ==
    /\ pc = "start"
    /\ data = NoKey
    /\ emitted' = SerializeRaw(raw)
    /\ pc' = "done"
    /\ UNCHANGED <<data, raw, mutation, input, target, pos, key, public_key, visited, result>>
    /\ UNCHANGED <<wrapped, first, writes, keyReads, valueReads>>

\* PublicKey::from(typed_key).serialize(), next to the typed key's own serialization
SerializeUnion ==
    /\ pc = "encoded"
    /\ wrapped' = SerializePublicKey(PublicKey_from(data))
    /\ pc' = "wrapped"
    /\ UNCHANGED <<data, raw, emitted, mutation, input, target, pos, key, public_key, visited>>
    /\ UNCHANGED <<result, first, writes, keyReads, valueReads>>

Hand(m, es, t) ==
    /\ mutation' = m
    /\ input' = es
    /\ target' = t
    /\ pc' = "ready"
    /\ UNCHANGED <<data, raw, emitted, pos, key, public_key, visited, result>>
    /\ UNCHANGED <<wrapped, first, writes, keyReads, valueReads>>

\* test_serde / test_de: the serialized map goes to cbor_deserialize::<T> as it is, T the
\* key's own type or the union PublicKey
HandDirect ==
    /\ pc = "encoded"
    /\ \E t \in {data.variant, "PublicKey"} :
        Hand(Mutation("direct", "full", <<>>, 0, <<>>), emitted.entries, t)

\* test_de_order: every permutation of the canonical fields; de_ecdh_order: a reordered
\* map without alg
HandPermuted ==
    /\ pc = "encoded"
    /\ \E base \in {"full", "noalg"} :
        LET es == IF base = "full" THEN emitted.entries ELSE Without(emitted.entries, "Alg") IN
        \E p \in Perms(Len(es)) :
            Hand(Mutation("perm", base, p, 0, <<>>), Permute(es, p), data.variant)

\* test_de_order: unsupported fields pushed after the canonical ones
HandAppended ==
    /\ pc = "encoded"
    /\ \E ks \in ExtraKeySeqs :
        Hand(Mutation("append", "full", <<>>, 0, ks), emitted.entries \o ExtraEntries(ks),
             data.variant)

\* test_de_alg with alg = None: fields.remove(1); the same for the crv entry
HandDropped ==
    /\ pc = "encoded"
    /\ \E label \in {"Alg", "CrvOrPk"} :
        /\ label = "CrvOrPk" => data.variant \notin DilithiumVariants
        /\ HasLabel(emitted.entries, label)
        /\ Hand(Mutation("drop", label, <<>>, 0, <<>>), Without(emitted.entries, label),
                data.variant)

\* test_de_alg with alg = Some(i8): fields[1].1 = alg; the same for the crv entry
HandReplaced ==
    /\ pc = "encoded"
    /\ \E label \in {"Alg", "CrvOrPk"}, n \in I8 :
        /\ label = "CrvOrPk" => data.variant \notin DilithiumVariants
        /\ HasLabel(emitted.entries, label)
        /\ Hand(Mutation("replace", label, <<>>, n, <<>>), WithValue(emitted.entries, label, n),
                data.variant)

\* a map whose x or y byte string exceeds the 32 bytes of the slot
HandOversized ==
    /\ pc = "encoded"
    /\ data.variant \in EcXyVariants \cup {"Ed25519PublicKey"}
    /\ \E label \in {"X", "Y"}, o \in 1 .. MaxOver :
        Hand(Mutation("oversize", label, <<>>, EcCapacity + o, <<>>),
             WithBytes(emitted.entries, label, Payload(EcCapacity + o, 0)), data.variant)

\* the serialized map of a key, with or without its alg entry, deserialized as any of
\* the typed keys that have a Deserialize impl
HandCross ==
    /\ pc = "encoded"
    /\ \E base \in {"full", "noalg"}, t \in DeserializeImpls :
        Hand(Mutation("cross", base, <<>>, 0, <<>>),
             IF base = "full" THEN emitted.entries ELSE Without(emitted.entries, "Alg"), t)

\* the serialized map of an Ed25519 key, with or without alg, and a y entry after x
HandWithY ==
    /\ pc = "encoded"
    /\ data.variant = "Ed25519PublicKey"
    /\ \E base \in {"full", "noalg"}, y \in Payloads :
        Hand(Mutation("with_y", base, <<>>, 0, <<>>),
             (IF base = "full" THEN emitted.entries ELSE Without(emitted.entries, "Alg"))
                \o <<Entry(LabelAsI8("Y"), BytesVal(y))>>,
             "Ed25519PublicKey")

\* no key is under test: the run decodes a map written entry by entry
FromTheWire == data = NoKey /\ raw = RawEcDefault

\* a map of recognized labels in any order, duplicates included, every value well-formed
HandLabels ==
    /\ pc = "start"
    /\ FromTheWire
    /\ \E ls \in LabelSeqs :
        Hand(Mutation("labels", "full", <<>>, 0, <<>>),
             WellFormedEntries(ls, "P256PublicKey"), "P256PublicKey")

\* a canonical prefix, then a key that is no label, then further entries
HandStopped ==
    /\ pc = "start"
    /\ FromTheWire
    /\ \E S \in SUBSET Labels, u \in StopKeys :
        \/ Hand(Mutation("stop", "full", <<>>, u, <<>>),
                WellFormedEntries(InOrder(S), "P256PublicKey") \o <<Entry(u, TextVal)>>,
                "P256PublicKey")
        \/ /\ u \in {42, 127 + MaxBeyond}
           /\ \E K \in EcXyVariants \cup {"Ed25519PublicKey"} : \E tail \in Tails(K) :
                Hand(Mutation("stop", "full", <<>>, u, <<>>),
                     WellFormedEntries(InOrder(S), K) \o <<Entry(u, TextVal)>> \o tail, K)

\* an opaque-blob map: some of kty, alg, pk in canonical order, then nothing, an x
\* entry, a y entry or a key that is no label
HandBlob ==
    /\ pc = "start"
    /\ FromTheWire
    /\ \E K \in DilithiumVariants, S \in SUBSET {"Kty", "Alg", "CrvOrPk"},
          f \in DOMAIN Followers("Dilithium2PublicKey") :
        Hand(Mutation("blob", f, <<>>, 0, <<>>),
             WellFormedEntries(InOrder(S), K) \o Followers(K)[f], K)

Fail(e) ==
    /\ pc' = "done"
    /\ result' = Err(e)

\* T::deserialize(deserializer) is entered: visit_map up to its first next_key; for a
\* type that has no Deserialize impl there is nothing to enter
Begin ==
    /\ pc = "ready"
    /\ IF target \notin DeserializeImpls
       THEN /\ pc' = "done"
            /\ result' = NoImpl
            /\ UNCHANGED <<pos, key, public_key, keyReads>>
       ELSE LET nk == next_key(input, pos) IN
            /\ public_key' = IF target \in DilithiumVariants THEN RawDilithiumDefault
                             ELSE RawEcDefault
            /\ keyReads' = keyReads + 1
            /\ IF nk.ok
               THEN key' = nk.key /\ pos' = nk.pos /\ pc' = "kty" /\ UNCHANGED result
               ELSE Fail(nk.err) /\ UNCHANGED <<pos, key>>
    /\ UNCHANGED <<data, raw, emitted, mutation, input, target, visited>>
    /\ UNCHANGED <<wrapped, first, writes, valueReads>>

\* the value paired with the key handed out last
CurrentValue == IF pos >= 1 THEN input[pos].v ELSE TextVal

\* if key == Key::Label(label) { public_key.slot = Some(map.next_value()?);
\*                               key = next_key(&mut map)?; }
IfBlock(label, slot, nv, next) ==
    /\ IF key = KeyLabel(label)
       THEN /\ valueReads' = valueReads + 1
            /\ IF ~nv.ok
               THEN Fail(nv.err) /\ UNCHANGED <<pos, key, public_key, writes, keyReads>>
               ELSE LET nk == next_key(input, pos) IN
                    /\ public_key' = [public_key EXCEPT ![slot] = Some(nv.v)]
                    /\ writes' = Append(writes, slot)
                    /\ keyReads' = keyReads + 1
                    /\ IF nk.ok
                       THEN key' = nk.key /\ pos' = nk.pos /\ pc' = next /\ UNCHANGED result
                       ELSE Fail(nk.err) /\ UNCHANGED <<pos, key>>
       ELSE /\ pc' = next
            /\ UNCHANGED <<pos, key, public_key, result, writes, keyReads, valueReads>>
    /\ UNCHANGED <<data, raw, emitted, mutation, input, target, visited, wrapped, first>>

IfKty ==
    /\ pc = "kty"
    /\ IfBlock("Kty", "kty", next_value_Kty(CurrentValue), "alg")

IfAlg ==
    /\ pc = "alg"
    /\ IfBlock("Alg", "alg", next_value_Alg(CurrentValue), "crv")

\* RawEcPublicKey: crv, an enum value
IfCrv ==
    /\ pc = "crv"
    /\ target \notin DilithiumVariants
    /\ IfBlock("CrvOrPk", "crv", next_value_Crv(CurrentValue), "x")

\* RawDilithiumNPublicKey: pk, a byte string; no x and y blocks follow
IfPk ==
    /\ pc = "crv"
    /\ target \in DilithiumVariants
    /\ IfBlock("CrvOrPk", "pk", next_value_Bytes(CurrentValue, DilithiumCapacity(target)), "final")

IfX ==
    /\ pc = "x"
    /\ IfBlock("X", "x", next_value_Bytes(CurrentValue, EcCapacity), "y")

\* a y block that is entered again for as long as the key is Y
IfY_Repeating ==
    /\ pc = "y"
    /\ IF key = KeyLabel("Y")
       THEN IfBlock("Y", "y", next_value_Bytes(CurrentValue, EcCapacity), "y")
       ELSE IfBlock("Y", "y", next_value_Bytes(CurrentValue, EcCapacity), "final")

\* a y block that is entered only once the x slot is filled
IfY_AfterX ==
    /\ pc = "y"
    /\ IF public_key.x.some
       THEN IfBlock("Y", "y", next_value_Bytes(CurrentValue, EcCapacity), "final")
       ELSE /\ pc' = "final"
            /\ UNCHANGED <<data, raw, emitted, mutation, input, target, pos, key, public_key>>
            /\ UNCHANGED <<visited, result, wrapped, first, writes, keyReads, valueReads>>

\* the y block assigning the x slot
IfY_IntoX ==
    /\ pc = "y"
    /\ IfBlock("Y", "x", next_value_Bytes(CurrentValue, EcCapacity), "final")

IfY ==
    /\ pc = "y"
    /\ IfBlock("Y", "y", next_value_Bytes(CurrentValue, EcCapacity), "final")

\* visit_map's last statement without the check for a leftover label
visit_map_return_Unchecked(k, r) == [status |-> "ok", key |-> r, err |-> ""]

\* visit_map's last statement accepting only the end of the map
visit_map_return_EndOnly(k, r) ==
    IF k.tag # "None" THEN Err(WrongOrder) ELSE [status |-> "ok", key |-> r, err |-> ""]

\* if matches!(key, Key::Label(_)) { Err(custom(..)) } else { Ok(public_key) }
visit_map_return(k, r) ==
    IF k.tag = "Label" THEN Err(WrongOrder) ELSE [status |-> "ok", key |-> r, err |-> ""]

\* visit_map returns; the typed deserialize propagates an error with `?`
Final ==
    /\ pc = "final"
    /\ visited' = visit_map_return(key, public_key)
    /\ IF visit_map_return(key, public_key).status = "ok"
       THEN pc' = "typed" /\ UNCHANGED result
       ELSE Fail(visit_map_return(key, public_key).err)
    /\ UNCHANGED <<data, raw, emitted, mutation, input, target, pos, key, public_key>>
    /\ UNCHANGED <<wrapped, first, writes, keyReads, valueReads>>

\* check_key_constants and the extraction of the payload fields
Typed ==
    /\ pc = "typed"
    /\ result' = DeserializeTyped(target, visited.key)
    /\ pc' = "done"
    /\ UNCHANGED <<data, raw, emitted, mutation, input, target, pos, key, public_key, visited>>
    /\ UNCHANGED <<wrapped, first, writes, keyReads, valueReads>>

\* the key a decode returned is serialized and the map is decoded as the same type
ReEncode ==
    /\ pc = "done"
    /\ result.status = "ok"
    /\ mutation.kind # "reencode"
    /\ first' = result.key
    /\ mutation' = Mutation("reencode", mutation.kind, <<>>, 0, <<>>)
    /\ input' = SerializeRaw(RawFrom(result.key)).entries
    /\ pos' = 0
    /\ key' = KeyNone
    /\ public_key' = RawEcDefault
    /\ visited' = NoResult
    /\ result' = NoResult
    /\ writes' = <<>>
    /\ keyReads' = 0
    /\ valueReads' = 0
    /\ pc' = "ready"
    /\ UNCHANGED <<data, raw, emitted, target, wrapped>>

Next ==
    \/ SerializeTyped
    \/ SerializeRawRecord
    \/ SerializeUnion
    \/ HandDirect
    \/ HandPermuted
    \/ HandAppended
    \/ HandDropped
    \/ HandReplaced
    \/ HandOversized
    \/ HandLabels
    \/ HandStopped
    \/ HandCross
    \/ HandWithY
    \/ HandBlob
    \/ Begin
    \/ IfKty
    \/ IfAlg
    \/ IfCrv
    \/ IfPk
    \/ IfX
    \/ IfY
    \/ Final
    \/ Typed
    \/ ReEncode

Spec == Init /\ [][Next]_vars

----------------------------------------------------------------------------
(* Properties *)

\* a deserialize run that has ended, its input made the given way
Ended(kind) == pc = "done" /\ mutation.kind = kind

\* the key's own type implements Deserialize
Decodable == data.variant \in DeserializeImpls

AllFF == [i \in 1 .. EcCapacity |-> 255]

RequiredAlgI8 == AlgAsI8(ALG(data.variant))

RequiredCrvI8 == CrvAsI8(CRV(data.variant))

\* C1 as stated: for every typed key variant V and every key v of V, deserializing the
\* serialization of v as V succeeds and returns v.
C1_RoundTripEveryVariant ==
    (Ended("direct") /\ target = data.variant) => result = Ok(data)

\* C1, amended: the round trip holds for every typed key variant that implements
\* Deserialize (P256, ECDH, Ed25519 and the Dilithium keys); TotpPublicKey only
\* implements Serialize and cannot be decoded.
C1_RoundTrip ==
    (Ended("direct") /\ target = data.variant /\ Decodable) => result = Ok(data)

C1_Witness ==
    /\ Ended("direct")
    /\ target = "P256PublicKey"
    /\ data.variant = "P256PublicKey"
    /\ data.x # data.y
    /\ Len(data.x) < EcCapacity
    /\ result = Ok(data)

\* C2 as stated: for every typed key, of all permutations of its serialized entries
\* exactly the canonical one deserializes, and it returns the key.
C2_CanonicalOnlyEveryVariant ==
    (Ended("perm") /\ mutation.on = "full") =>
        IF mutation.perm = Identity(Len(input))
        THEN result = Ok(data)
        ELSE result.status = "err"

\* C2, amended: the same for every typed key whose variant implements Deserialize
\* (all but TotpPublicKey).
C2_CanonicalOnly ==
    (Ended("perm") /\ mutation.on = "full" /\ Decodable) =>
        IF mutation.perm = Identity(Len(input))
        THEN result = Ok(data)
        ELSE result.status = "err"

\* alg moved behind y: the only field a typed key can do without
C2_Witness ==
    /\ Ended("perm")
    /\ mutation.on = "full"
    /\ data.variant = "EcdhEsHkdf256PublicKey"
    /\ mutation.perm = <<1, 3, 4, 5, 2>>
    /\ result = Err(WrongOrder)

AlgRule ==
    /\ (Ended("drop") /\ mutation.on = "Alg") => result = Ok(data)
    /\ (Ended("replace") /\ mutation.on = "Alg") =>
           IF mutation.arg = RequiredAlgI8 THEN result = Ok(data) ELSE result.status = "err"

\* C4 as stated: for every typed key, (a) without the alg entry the map deserializes to
\* the key, (b) with any other i8 as the alg value it fails, (c) with the required alg
\* value it deserializes to the key.
C4_OptionalAlgEveryVariant == AlgRule

\* C4, amended: the same for every typed key whose variant implements Deserialize
\* (all but TotpPublicKey).
C4_OptionalAlg == Decodable => AlgRule

\* an alg that is an Alg enumerator, but the other EC variant's
C4_Witness ==
    /\ Ended("replace")
    /\ mutation.on = "Alg"
    /\ data.variant = "P256PublicKey"
    /\ mutation.arg = -25
    /\ public_key.alg = Some("EcdhEsHkdf256")
    /\ result = Err("invalid value alg")

HasCrvEntry(es) == \E i \in 1 .. Len(es) : es[i].k = -1 /\ es[i].v.t = "int"

CrvRule ==
    /\ (Ended("direct") /\ target = data.variant /\ CRV(data.variant) = "None") =>
           (~HasCrvEntry(input) /\ result = Ok(data))
    /\ (Ended("drop") /\ mutation.on = "CrvOrPk" /\ CRV(data.variant) # "None") =>
           (~HasCrvEntry(input) /\ result.status = "err")
    /\ (Ended("replace") /\ mutation.on = "CrvOrPk" /\ CRV(data.variant) # "None"
           /\ mutation.arg # RequiredCrvI8) =>
           result.status = "err"

\* C5 as stated: every variant whose required crv is None (the symmetric marker key, the
\* opaque-blob keys) deserializes from a map without a crv field; every other variant
\* (P256, ECDH, Ed25519) fails when the crv entry is absent or carries another value.
C5_CrvExceptSentinelEveryVariant == CrvRule

\* C5, amended: the variants with required crv None that implement Deserialize (the
\* Dilithium keys) deserialize from a map without a crv field - the symmetric marker key
\* TotpPublicKey has no decoder; P256, ECDH and Ed25519 fail when the crv entry is
\* absent or carries another value.
C5_CrvExceptSentinel == Decodable => CrvRule

C5_Witness ==
    /\ Ended("drop")
    /\ mutation.on = "CrvOrPk"
    /\ data.variant = "Ed25519PublicKey"
    /\ visited.status = "ok"
    /\ result = Err("missing field crv")

SlotNames == <<"kty", "alg", "crv", "x", "y">>

SlotKeys == <<1, 3, -1, -2, -3>>

PresentSlots(r) == {i \in 1 .. 5 : r[SlotNames[i]].some}

SlotValue(r, i) ==
    CASE i = 1 -> IntVal(KtyAsI8(r.kty.v))
      [] i = 2 -> IntVal(AlgAsI8(r.alg.v))
      [] i = 3 -> IntVal(CrvAsI8(r.crv.v))
      [] i = 4 -> BytesVal(r.x.v)
      [] i = 5 -> BytesVal(r.y.v)

\* C6: the raw serializer declares as many entries as slots are present, writes one
\* entry per present slot and none for an absent one, in the order kty(1), alg(3),
\* crv(-1), x(-2), y(-3).
C6_RawEncoder ==
    (pc = "done" /\ data = NoKey /\ ~IsRawDilithium(raw)) =>
        LET es == emitted.entries IN
        /\ emitted.len = Cardinality(PresentSlots(raw))
        /\ Len(es) = Cardinality(PresentSlots(raw))
        /\ \A i \in PresentSlots(raw) :
               \E n \in 1 .. Len(es) : es[n] = Entry(SlotKeys[i], SlotValue(raw, i))
        /\ \A n \in 1 .. Len(es) : \E i \in PresentSlots(raw) : es[n].k = SlotKeys[i]
        /\ \A m, n \in 1 .. Len(es) :
               m < n => \E i, j \in 1 .. 5 : i < j /\ es[m].k = SlotKeys[i] /\ es[n].k = SlotKeys[j]

C6_Witness ==
    /\ pc = "done"
    /\ data = NoKey
    /\ ~IsRawDilithium(raw)
    /\ PresentSlots(raw) = {2, 4, 5}
    /\ emitted.len = 3
    /\ <<emitted.entries[1].k, emitted.entries[2].k, emitted.entries[3].k>> = <<3, -2, -3>>

\* C7: a P256 or ECDH key serializes to the 5-entry map kty=2, alg (-7 for P256, -25
\* for ECDH), crv=1, x, y in this order, and that map deserializes to the key.
C7_EcXyEncoding ==
    (data.variant \in EcXyVariants /\ pc # "start") =>
        /\ emitted = Emitted(5, <<Entry(1, IntVal(2)),
                                  Entry(3, IntVal(IF data.variant = "P256PublicKey" THEN -7 ELSE -25)),
                                  Entry(-1, IntVal(1)),
                                  Entry(-2, BytesVal(data.x)),
                                  Entry(-3, BytesVal(data.y))>>)
        /\ (Ended("direct") /\ target = data.variant) => result = Ok(data)

\* the key of de_ecdh: x = y = 32 bytes of 0xff
C7_Witness ==
    /\ Ended("direct")
    /\ data = EcdhKey(AllFF, AllFF)
    /\ target = "EcdhEsHkdf256PublicKey"
    /\ input = emitted.entries
    /\ input[2] = Entry(3, IntVal(-25))
    /\ result = Ok(data)

\* C8: an Ed25519 key serializes to the 4-entry map kty=1, alg=-8, crv=6, x in this
\* order, without a y entry, and that map deserializes to the key.
C8_Ed25519Encoding ==
    (data.variant = "Ed25519PublicKey" /\ pc # "start") =>
        /\ emitted = Emitted(4, <<Entry(1, IntVal(1)),
                                  Entry(3, IntVal(-8)),
                                  Entry(-1, IntVal(6)),
                                  Entry(-2, BytesVal(data.x))>>)
        /\ (Ended("direct") /\ target = data.variant) => result = Ok(data)

\* the key of de_ed25519: x = 32 bytes of 0xff
C8_Witness ==
    /\ Ended("direct")
    /\ data = Ed25519Key(AllFF)
    /\ target = "Ed25519PublicKey"
    /\ Len(input) = 4
    /\ result = Ok(data)

\* the map of de_ecdh_order: crv=1, x, y, kty=2 and no alg
EcdhOrderRun ==
    /\ Ended("perm")
    /\ data.variant = "EcdhEsHkdf256PublicKey"
    /\ target = "EcdhEsHkdf256PublicKey"
    /\ mutation.on = "noalg"
    /\ mutation.perm = <<2, 3, 4, 1>>

C10_UnionDecode ==
    (Ended("direct") /\ target = "PublicKey"
        /\ data.variant \in EcXyVariants \cup {"Ed25519PublicKey"}) =>
        result = Ok(PublicKey_from(data))

Serialized == pc # "start" /\ data # NoKey

\* C12: the raw record a typed key is serialized through has kty and alg present and equal
\* to the variant's constants, crv present (and equal to the variant's curve) exactly when
\* that curve is not None, and every payload field present: x and y for P256 and ECDH, x
\* alone for Ed25519, pk for Dilithium, none for Totp, whose map is kty = 4, alg = -9.
\* Every present field is written.
C12_TypedEncodeTotal ==
    Serialized =>
        LET K == data.variant IN
        /\ raw.kty = Some(KTY(K))
        /\ raw.alg = Some(ALG(K))
        /\ emitted.len = Len(emitted.entries)
        /\ K \in EcXyVariants =>
              /\ raw.crv = Some(CRV(K)) /\ CRV(K) # "None"
              /\ raw.x = Some(data.x) /\ raw.y = Some(data.y)
              /\ emitted.len = 5
        /\ K = "Ed25519PublicKey" =>
              /\ raw.crv = Some(CRV(K)) /\ CRV(K) # "None"
              /\ raw.x = Some(data.x) /\ raw.y = NoneBytes
              /\ emitted.len = 4
        /\ K = "TotpPublicKey" =>
              /\ CRV(K) = "None"
              /\ raw.crv = NoneEnum /\ raw.x = NoneBytes /\ raw.y = NoneBytes
              /\ emitted = Emitted(2, <<Entry(1, IntVal(4)), Entry(3, IntVal(-9))>>)
        /\ K \in DilithiumVariants =>
              /\ CRV(K) = "None"
              /\ raw.pk = Some(data.pk)
              /\ emitted.len = 3

C12_Witness ==
    /\ pc = "encoded"
    /\ data = TotpKey
    /\ Len(emitted.entries) = 2

\* the slot a label is read into
SlotOf(label) ==
    CASE label = "Kty" -> "kty"
      [] label = "Alg" -> "alg"
      [] label = "CrvOrPk" -> "crv"
      [] label = "X" -> "x"
      [] label = "Y" -> "y"

IsLabelKey(k) == \E l \in Labels : LabelAsI8(l) = k

LabelOfKey(k) == CHOOSE l \in Labels : LabelAsI8(l) = k

\* position of a label in the canonical order
Rank(l) == CHOOSE i \in 1 .. Len(CanonicalOrder) : CanonicalOrder[i] = l

KeyRank(k) == Rank(LabelOfKey(k))

\* the first n entries of es are recognized labels in strictly ascending canonical order
AscendingUpTo(es, n) ==
    \A i \in 1 .. n :
        /\ IsLabelKey(es[i].k)
        /\ i > 1 => KeyRank(es[i - 1].k) < KeyRank(es[i].k)

\* after a canonical run of labels comes a label that repeats or precedes the last one
Offends(es) ==
    \E j \in 2 .. Len(es) :
        /\ AscendingUpTo(es, j - 1)
        /\ IsLabelKey(es[j].k)
        /\ KeyRank(es[j].k) <= KeyRank(es[j - 1].k)

EcTargets == EcXyVariants \cup {"Ed25519PublicKey"}

SlotFor(K, label) == IF K \in DilithiumVariants /\ label = "CrvOrPk" THEN "pk" ELSE SlotOf(label)

SlotRank(slot) ==
    CASE slot = "kty" -> 1
      [] slot = "alg" -> 2
      [] slot \in {"crv", "pk"} -> 3
      [] slot = "x" -> 4
      [] slot = "y" -> 5

\* C16: in every state of a decode run the slots assigned so far were each assigned once,
\* in strictly ascending canonical order, the i-th assignment taking the i-th entry of the
\* input; a slot holds a value exactly when it was assigned.
C16_SlotPopulation ==
    /\ Len(writes) <= 5
    /\ \A i \in 1 .. Len(writes) :
        /\ i > 1 => SlotRank(writes[i - 1]) < SlotRank(writes[i])
        /\ i <= Len(input)
        /\ IsLabelKey(input[i].k)
        /\ writes[i] = SlotFor(target, LabelOfKey(input[i].k))
    /\ \A slot \in DOMAIN public_key :
        public_key[slot].some <=> \E i \in 1 .. Len(writes) : writes[i] = slot

C16_Witness ==
    /\ pc = "done"
    /\ mutation.kind = "labels"
    /\ writes = <<"kty", "alg", "crv", "x", "y">>
    /\ \A slot \in DOMAIN public_key : public_key[slot].some

\* position of the first key that is no label
StopIndex(es) ==
    CHOOSE i \in 1 .. Len(es) :
        /\ ~IsLabelKey(es[i].k)
        /\ \A j \in 1 .. (i - 1) : IsLabelKey(es[j].k)

\* the labels in front of the first key that is no label
PrefixLabels(es) == {LabelOfKey(es[j].k) : j \in 1 .. (StopIndex(es) - 1)}

\* the raw record with the slots of the labels in S, holding the well-formed values of K
ExpectedRecord(S, K) ==
    RawEcPublicKey(IF "Kty" \in S THEN Some(KTY(K)) ELSE NoneEnum,
                   IF "Alg" \in S THEN Some(ALG(K)) ELSE NoneEnum,
                   IF "CrvOrPk" \in S THEN Some(CRV(K)) ELSE NoneEnum,
                   IF "X" \in S THEN Some(Payload(EcCapacity, 0)) ELSE NoneBytes,
                   IF "Y" \in S THEN Some(Payload(EcCapacity, 1)) ELSE NoneBytes)

\* C17 as stated: whenever the next map key is an integer other than 1, 3, -1, -2, -3,
\* integers outside the i8 range included, the raw decoder stops there and succeeds with
\* the slots filled so far.
C17_UnknownKeyStops ==
    Ended("stop") => visited = Ok(ExpectedRecord(PrefixLabels(input), target))

\* C18: what follows the first key that is no label is not looked at: whatever the later
\* entries are (a second kty, a label out of order, an alg of a wrong value), the run ends
\* as it does without them, and the slots are those of the entries before that key.
C18_NothingAfterUnknown ==
    Ended("stop") =>
        LET expected == ExpectedRecord(PrefixLabels(input), target) IN
        /\ public_key = expected
        /\ pos <= StopIndex(input)
        /\ keyReads = StopIndex(input)
        /\ IF mutation.arg \in I8
           THEN visited = Ok(expected) /\ result = DeserializeTyped(target, expected)
           ELSE visited = NoResult /\ result = Err("invalid key")

C18_Witness ==
    /\ Ended("stop")
    /\ mutation.arg = 42
    /\ PrefixLabels(input) = {"Kty", "Alg", "CrvOrPk", "X", "Y"}
    /\ Len(input) = 8
    /\ input[7].k = 1
    /\ input[8] = Entry(3, IntVal(0))
    /\ result.status = "ok"

\* the fields the typed decoder of K cannot do without, in the order it asks for them
RequiredLabels(K) ==
    IF K \in EcXyVariants THEN <<"Kty", "CrvOrPk", "X", "Y">> ELSE <<"Kty", "CrvOrPk", "X">>

\* the first required field of K that S lacks
FirstMissing(S, K) ==
    LET missing == SelectSeq(RequiredLabels(K), LAMBDA l : l \notin S) IN
    SlotOf(missing[1])

MissingField(slot) ==
    CASE slot = "kty" -> "missing field kty"
      [] slot = "crv" -> "missing field crv"
      [] slot = "x" -> "missing field x"
      [] slot = "y" -> "missing field y"

\* C19: a map in which a key that is no label comes before one of the fields P256, ECDH or
\* Ed25519 require fails to decode as that type: the fields after that key are not read,
\* and the first of them the typed decoder asks for is reported missing (the key itself is
\* the error when it is no i8).
C19_UnknownBeforeRequired ==
    /\ Ended("stop")
    /\ target \in EcTargets
    /\ \E i \in 1 .. Len(RequiredLabels(target)) :
            RequiredLabels(target)[i] \notin PrefixLabels(input)
    => /\ result.status = "err"
       /\ result.err = IF mutation.arg \in I8
                       THEN MissingField(FirstMissing(PrefixLabels(input), target))
                       ELSE "invalid key"

C19_Witness ==
    /\ Ended("stop")
    /\ target = "EcdhEsHkdf256PublicKey"
    /\ mutation.arg = 42
    /\ PrefixLabels(input) = {"Kty", "Alg", "CrvOrPk", "X"}
    /\ Len(input) = 6
    /\ input[6].k = -3
    /\ result = Err("missing field y")

\* the labels of the entries of es, in order
LabelsOf(es) == [i \in 1 .. Len(es) |-> LabelOfKey(es[i].k)]

C21_YOnlyAfterX ==
    "y" \in DOMAIN public_key /\ public_key.y.some => public_key.x.some

\* C21: the y block comes after the x block and does not depend on it.  The y slot is
\* filled last, from the entry labelled Y, directly after the x slot when that one is
\* filled too; a Y entry that follows a canonical run of labels without X is consumed, and
\* the raw decoder accepts the map with x absent.
C21_YAfterXBlock ==
    /\ "y" \in DOMAIN public_key /\ public_key.y.some =>
        /\ writes[Len(writes)] = "y"
        /\ input[Len(writes)].k = LabelAsI8("Y")
        /\ public_key.x.some <=> Len(writes) >= 2 /\ writes[Len(writes) - 1] = "x"
    /\ /\ Ended("labels")
       /\ Len(input) >= 1
       /\ AscendingUpTo(input, Len(input))
       /\ input[Len(input)].k = LabelAsI8("Y")
       => visited.status = "ok" /\ visited.key.y = Some(Payload(EcCapacity, 1))

C21_Witness ==
    /\ Ended("labels")
    /\ LabelsOf(input) = <<"Kty", "Y">>
    /\ visited.status = "ok"
    /\ visited.key.y.some
    /\ ~visited.key.x.some

\* the crv argument the typed decoder hands to check_key_constants for a raw record
CrvArgument(r) == IF IsRawDilithium(r) THEN Some("None") ELSE r.crv

\* C22: check_key_constants, for every variant and every record the raw decoder returns,
\* fails with `missing field kty` when kty is absent and with an invalid-value error when
\* it is present and is not the variant's kty; a typed decode never returns a key from a
\* record whose kty is absent or different.
C22_KtyValidation ==
    /\ pc = "typed" =>
        \A K \in Variants :
            LET r == visited.key
                c == check_key_constants(K, r.kty, r.alg, CrvArgument(r))
            IN  /\ ~r.kty.some => c = [ok |-> FALSE, err |-> "missing field kty"]
                /\ r.kty.some /\ r.kty.v # KTY(K) => c = [ok |-> FALSE, err |-> "invalid value kty"]
                /\ c.ok => r.kty = Some(KTY(K))
    /\ pc = "done" /\ visited.status = "ok" =>
        /\ ~visited.key.kty.some => result = Err("missing field kty")
        /\ visited.key.kty.some /\ visited.key.kty.v # KTY(target) =>
                result = Err("invalid value kty")
        /\ result.status = "ok" => visited.key.kty = Some(KTY(target))

C22_Witness ==
    /\ Ended("cross")
    /\ data.variant = "Ed25519PublicKey"
    /\ target = "P256PublicKey"
    /\ visited.status = "ok"
    /\ visited.key.kty = Some("Okp")
    /\ result = Err("invalid value kty")

\* the byte string of the entry of es under label, among the first n entries
ConsumedBytes(es, n, label) ==
    LET i == CHOOSE i \in 1 .. n : es[i].k = LabelAsI8(label) IN es[i].v.b

\* the entries visit_map consumed into slots
Consumed == SubSeq(input, 1, Len(writes))

\* C23: when the record the raw decoder returns passes check_key_constants, the typed
\* decode fails with `missing field` for an absent payload field the variant needs (x, then
\* y, for P256 and ECDH; x for Ed25519; pk for the opaque-blob keys) and succeeds only when
\* all of them are present; the key returned holds the bytes of the input's entries.
C23_PayloadPresence ==
    /\ pc = "done"
    /\ visited.status = "ok"
    /\ check_key_constants(target, visited.key.kty, visited.key.alg, CrvArgument(visited.key)).ok
    => LET r == visited.key IN
       /\ target \in EcTargets /\ ~r.x.some => result = Err("missing field x")
       /\ target \in EcXyVariants /\ r.x.some /\ ~r.y.some => result = Err("missing field y")
       /\ target \in DilithiumVariants /\ ~r.pk.some => result = Err("missing field pk")
       /\ target \in EcXyVariants /\ r.x.some /\ r.y.some =>
            /\ result.status = "ok" /\ result.key.variant = target
            /\ result.key.x = ConsumedBytes(input, Len(writes), "X")
            /\ result.key.y = ConsumedBytes(input, Len(writes), "Y")
       /\ target = "Ed25519PublicKey" /\ r.x.some =>
            result = Ok(Ed25519Key(ConsumedBytes(input, Len(writes), "X")))
       /\ target \in DilithiumVariants /\ r.pk.some =>
            result = Ok(DilithiumKey(target, ConsumedBytes(input, Len(writes), "CrvOrPk")))

C23_Witness ==
    /\ Ended("blob")
    /\ target = "Dilithium3PublicKey"
    /\ visited.status = "ok"
    /\ visited.key.kty.some /\ visited.key.alg.some /\ ~visited.key.pk.some
    /\ result = Err("missing field pk")

\* C24: the canonical map of an Ed25519 key (kty = 1, alg = -8 or no alg, crv = 6, x) with
\* a well-formed y entry after x decodes as Ed25519PublicKey to the key the map without
\* the y entry decodes to; the y is read into its slot and then left unused.
C24_UnusedYIgnored ==
    Ended("with_y") =>
        /\ visited.status = "ok"
        /\ visited.key.y = Some(input[Len(input)].v.b)
        /\ result = Ok(data)

C24_Witness ==
    /\ Ended("with_y")
    /\ mutation.on = "noalg"
    /\ Len(input) = 4
    /\ input[1] = Entry(1, IntVal(1)) /\ input[2] = Entry(-1, IntVal(6))
    /\ input[4].k = -3 /\ Len(input[4].v.b) = EcCapacity
    /\ result = Ok(data)

\* a typed decode that returned a key
Accepted == pc = "done" /\ result.status = "ok"

\* the entries of the key's own serialization
CanonicalEntries(k) == SerializeRaw(RawFrom(k)).entries

C26_CrossVariantExclusion ==
    /\ Ended("cross")
    /\ mutation.on = "full"
    /\ data.variant \in EcTargets
    /\ target \in EcTargets
    => IF target = data.variant THEN result = Ok(data) ELSE result.status = "err"

C26_Witness ==
    /\ Ended("cross")
    /\ mutation.on = "full"
    /\ data.variant = "P256PublicKey"
    /\ target = "EcdhEsHkdf256PublicKey"
    /\ result = Err("invalid value alg")

\* C27: the serialized map of a P256 or ECDH key without its alg entry (kty = 2, crv = 1,
\* x, y) decodes as P256PublicKey and as EcdhEsHkdf256PublicKey alike, each result
\* holding the map's x and y.
C27_AlgLessAmbiguity ==
    /\ Ended("cross")
    /\ mutation.on = "noalg"
    /\ data.variant \in EcXyVariants
    /\ target \in EcXyVariants
    => /\ ~HasLabel(input, "Alg")
       /\ result.status = "ok"
       /\ result.key = [variant |-> target, x |-> data.x, y |-> data.y]

C27_Witness ==
    /\ Ended("cross")
    /\ mutation.on = "noalg"
    /\ data.variant = "P256PublicKey"
    /\ target = "EcdhEsHkdf256PublicKey"
    /\ Len(input) = 4
    /\ input[1] = Entry(1, IntVal(2)) /\ input[2] = Entry(-1, IntVal(1))
    /\ result = Ok(EcdhKey(data.x, data.y))

\* the full canonical map of an EC key: kty, alg, crv and the payload, nothing else
FullCanonicalMap(k) ==
    <<Entry(1, IntVal(KtyAsI8(KTY(k.variant)))), Entry(3, IntVal(AlgAsI8(ALG(k.variant)))),
      Entry(-1, IntVal(CrvAsI8(CRV(k.variant)))), Entry(-2, BytesVal(k.x))>>
    \o (IF k.variant \in EcXyVariants THEN <<Entry(-3, BytesVal(k.y))>> ELSE <<>>)

\* C28: when a map has decoded as P256, ECDH or Ed25519 to a key k (alg left out, unknown
\* entries at the end or an unused y or not), the serialization of k is the full canonical
\* map of the type, alg included and nothing added, and decoding it as the same type
\* returns k.
C28_ReEncodingCanonicalizes ==
    mutation.kind = "reencode" /\ target \in EcTargets =>
        /\ first.variant = target
        /\ input = FullCanonicalMap(first)
        /\ pc = "done" => result = Ok(first)

C28_Witness ==
    /\ pc = "done"
    /\ mutation.kind = "reencode"
    /\ mutation.on = "with_y"
    /\ target = "Ed25519PublicKey"
    /\ Len(input) = 4
    /\ result = Ok(first)

\* the positions of a raw decode run and their order in visit_map
RawPcs == {"ready", "kty", "alg", "crv", "x", "y", "final"}

PcRank(p) ==
    CASE p = "ready" -> 0
      [] p = "kty" -> 1
      [] p = "alg" -> 2
      [] p = "crv" -> 3
      [] p = "x" -> 4
      [] p = "y" -> 5
      [] p = "final" -> 6
      [] OTHER -> 7

\* a step of visit_map is possible
RawStepEnabled == ENABLED (Begin \/ IfKty \/ IfAlg \/ IfCrv \/ IfPk \/ IfX \/ IfY \/ Final)

\* the counts of a raw decode run: at most six keys and five values, a value only after
\* its key, nothing beyond the keys handed out; on a key that is no label the key is the
\* last thing read, its value and the entries after it are not
BoundedReads ==
    /\ keyReads <= 6
    /\ valueReads <= 5
    /\ valueReads <= keyReads
    /\ pos <= keyReads
    /\ pos <= Len(input)
    /\ key.tag = "Unknown" =>
        /\ pos = StopIndex(input)
        /\ keyReads = pos
        /\ valueReads = pos - 1
        /\ Len(writes) = pos - 1
    /\ pc \in RawPcs => RawStepEnabled

\* a step taken inside a raw decode run moves to a later block
RawStepAdvances == pc \in RawPcs => PcRank(pc') > PcRank(pc)

\* C29: whatever the length of the map, a raw decode run makes at most six key reads and
\* five value reads; every step it takes moves to a later block of visit_map, and a step
\* is possible until it has returned, so the run ends; when it stops at a key that is no
\* label it has read that key, not its value, and no entry after it.
C29_BoundedReads ==
    /\ []BoundedReads
    /\ [][RawStepAdvances]_vars

C29_Witness ==
    /\ Ended("stop")
    /\ Len(input) = 8
    /\ key.tag = "Unknown"
    /\ pos = 6
    /\ keyReads = 6
    /\ valueReads = 5

\* the opaque-blob record with the slots of the labels in S, holding K's well-formed values
ExpectedBlobRecord(S, K) ==
    RawDilithiumPublicKey(IF "Kty" \in S THEN Some(KTY(K)) ELSE NoneEnum,
                          IF "Alg" \in S THEN Some(ALG(K)) ELSE NoneEnum,
                          IF "CrvOrPk" \in S THEN Some(Payload(EcCapacity, 0)) ELSE NoneBytes)

\* the labels of the entries in front of the follower of an opaque-blob map
BlobLabels ==
    LET n == Len(input) - Len(Followers(target)[mutation.on]) IN
    {LabelOfKey(input[i].k) : i \in 1 .. n}

\* C30: for the opaque-blob keys a map in which an entry labelled x or y comes directly
\* after the consumed fields fails with the `wrong order or with duplicates` error, while
\* a key that is no label in the same place ends the raw decode successfully with the
\* fields read so far, as does the end of the map.
C30_BlobRejectsXY ==
    Ended("blob") =>
        IF mutation.on \in {"X", "Y"}
        THEN visited = Err(WrongOrder) /\ result = Err(WrongOrder)
        ELSE /\ visited = Ok(ExpectedBlobRecord(BlobLabels, target))
             /\ result = DeserializeTyped(target, ExpectedBlobRecord(BlobLabels, target))
             /\ BlobLabels = {"Kty", "Alg", "CrvOrPk"} =>
                    result = Ok(DilithiumKey(target, Payload(EcCapacity, 0)))

C30_Witness ==
    /\ Ended("blob")
    /\ mutation.on = "Y"
    /\ target = "Dilithium5PublicKey"
    /\ Len(input) = 4
    /\ Len(writes) = 3
    /\ input[4].k = -3
    /\ result = Err(WrongOrder)

====
